---------------------------- MODULE Spec2Model ----------------------------
(***************************************************************************)
(* slack-pair-bot: the two deployments found in src/server.js.             *)
(*   "simple": lines 1-195   (isAdmin, /pair-match, pair_modal, findUser)  *)
(*   "class" : lines 197-654 (class PairMatchingBot)                       *)
(* Strings are sequences of one-character strings, so that split, trim,    *)
(* replace(/^@/), startsWith, includes and toLowerCase are computed.       *)
(* A handler is cut at its await points: every external call is issued by  *)
(* one step and answered (result or raised error) by a later step.         *)
(***************************************************************************)
EXTENDS Integers, Sequences, FiniteSets, TLC

VARIABLES
  app,        \* which deployment runs: "simple" or "class"
  adminUsers, \* ADMIN_USERS split on commas
  modalOpen,  \* the callers whose pair modal is open in Slack
  pc,         \* where each handler invocation stands
  caller,     \* command.user_id / body.user.id of the invocation
  pairs_input, \* view.state.values.pairs_input: the text of the submitted modal
  items,      \* lines (simple) or pairs (class) of the running batch
  i,          \* 1-based position of the loop in items
  userId1,    \* const userId1
  userId2,    \* const userId2
  conv,       \* conversation.channel.id
  results,    \* const results = []
  log         \* the external calls of the invocation, in the order issued

vars == <<app, adminUsers, modalOpen, pc, caller, pairs_input, items, i, userId1,
          userId2, conv, results, log>>

(***************************************************************************)
(* Bounds                                                                  *)
(***************************************************************************)
\* most lines in one submitted text
MaxLines == 2

\* handler invocations that run one after the other
Procs == {1}

\* the handler invocations that may be in flight together
Workers == {1, 2}

(***************************************************************************)
(* Strings                                                                 *)
(***************************************************************************)
NL == "\n"

Empty == << >>

RECURSIVE Join(_, _)
\* Array.prototype.join
Join(parts, sep) ==
  IF Len(parts) = 0 THEN Empty
  ELSE IF Len(parts) = 1 THEN parts[1]
  ELSE parts[1] \o sep \o Join(Tail(parts), sep)

RECURSIVE SplitFrom(_, _, _)
SplitFrom(s, sep, cur) ==
  IF Len(s) = 0 THEN <<cur>>
  ELSE IF Head(s) = sep THEN <<cur>> \o SplitFrom(Tail(s), sep, Empty)
  ELSE SplitFrom(Tail(s), sep, Append(cur, Head(s)))

\* String.prototype.split with a one-character separator
Split(s, sep) == SplitFrom(s, sep, Empty)

IsSpace(c) == c \in {" ", NL}

RECURSIVE TrimLeft(_)
TrimLeft(s) ==
  IF Len(s) > 0 /\ IsSpace(Head(s)) THEN TrimLeft(Tail(s)) ELSE s

RECURSIVE TrimRight(_)
TrimRight(s) ==
  IF Len(s) > 0 /\ IsSpace(s[Len(s)]) THEN TrimRight(SubSeq(s, 1, Len(s) - 1)) ELSE s

\* String.prototype.trim
Trim(s) == TrimRight(TrimLeft(s))

LowerChar(c) ==
  CASE c = "A" -> "a"
    [] c = "B" -> "b"
    [] c = "C" -> "c"
    [] c = "U" -> "u"
    [] c = "Z" -> "z"
    [] OTHER -> c

\* String.prototype.toLowerCase
ToLower(s) == [k \in 1..Len(s) |-> LowerChar(s[k])]

\* identifier.replace(/^@/, '')
StripAt(s) == IF Len(s) > 0 /\ Head(s) = "@" THEN Tail(s) ELSE s

\* cleaned.startsWith('U')
StartsWithU(s) == Len(s) > 0 /\ Head(s) = "U"

\* cleaned.includes('@')
IncludesAt(s) == \E k \in 1..Len(s) : s[k] = "@"

(***************************************************************************)
(* The workspace directory the Slack API answers from                      *)
(***************************************************************************)
U1 == <<"U", "1">>

U2 == <<"U", "2">>

U3 == <<"U", "3">>

U4 == <<"U", "4">>

U9 == <<"U", "9">>

Members ==
  << [id |-> U1, name |-> <<"a">>, display_name |-> <<"A">>, real_name |-> <<"A", "l">>,
      email |-> <<"a", "@", "c">>, deleted |-> FALSE, is_bot |-> FALSE],
     [id |-> U2, name |-> <<"b">>, display_name |-> Empty, real_name |-> <<"B", "o">>,
      email |-> <<"b", "@", "c">>, deleted |-> FALSE, is_bot |-> FALSE],
     [id |-> U3, name |-> <<"c">>, display_name |-> <<"C">>, real_name |-> <<"C", "y">>,
      email |-> Empty, deleted |-> FALSE, is_bot |-> TRUE],
     [id |-> U4, name |-> <<"a", "l">>, display_name |-> <<"a", "l">>,
      real_name |-> <<"a", "l">>, email |-> Empty, deleted |-> FALSE, is_bot |-> FALSE] >>

MemberIds == {Members[k].id : k \in 1..Len(Members)}

MemberById(id) == Members[CHOOSE k \in 1..Len(Members) : Members[k].id = id]

\* the callers that type /pair-match
Callers == {U1, U2}

\* the values ADMIN_USERS is deployed with
AdminConfigs == { {}, {U1}, {<<"b", "@", "c">>} }

\* the lines a requester types into the modal
Lines ==
  { <<"@", "a", ",", " ", "b">>,
    <<"U", "1", ",", "a", "@", "c">>,
    <<"b">>,
    <<"a", ",", " ", "z">>,
    <<"U", "9", ",", "U", "2">> }

\* further lines a requester may type: a token that is one member's real
\* name and another's handle with the handle of a bot, two unknown names, a
\* line that ends in its comma, a line of three tokens, a blank line
InputLines ==
  { <<"a", "l", ",", " ", "c">>,
    <<"z", ",", " ", "y">>,
    <<"a", ",">>,
    <<"a", ",", "b", ",", "a">>,
    <<" ">> }

RECURSIVE SeqsUpTo(_, _)
SeqsUpTo(S, n) ==
  IF n = 0 THEN {Empty}
  ELSE LET shorter == SeqsUpTo(S, n - 1)
       IN  shorter \cup {Append(q, x) : q \in {r \in shorter : Len(r) = n - 1}, x \in S}

\* the texts of the pairs input: one to MaxLines lines joined by line breaks
Texts == {Join(ls, <<NL>>) : ls \in SeqsUpTo(Lines, MaxLines) \ {Empty}}

\* the texts of two submissions that are in flight together
ConcTexts ==
  { <<"@", "a", ",", " ", "b">>,
    <<"a", ",", " ", "z">> }

InputTexts == {Join(ls, <<NL>>) : ls \in SeqsUpTo(InputLines, MaxLines) \ {Empty}}

(***************************************************************************)
(* Values handed around by the handlers                                    *)
(***************************************************************************)
\* error.message: what was raised, about which identifier, and why
Err(kind, ident, cause) == [kind |-> kind, ident |-> ident, cause |-> cause]

NoError == Err("", Empty, "")

\* the error the Slack client raises when call op fails
ApiError(op) == Err("An API error occurred", Empty, op)

\* an entry of the results array
Outcome(success, pair, error, channelId) ==
  [success |-> success, pair |-> pair, error |-> error, channelId |-> channelId]

\* the text/blocks of a message
Body(kind, successful, failed, sections, error) ==
  [kind |-> kind, successful |-> successful, failed |-> failed,
   sections |-> sections, error |-> error]

IntroBody == Body("intro", 0, 0, << >>, NoError)

NoticeBody(kind) == Body(kind, 0, 0, << >>, NoError)

ErrorBody(error) == Body("error", 0, 0, << >>, error)

\* one external call: a Slack Web API method or the setTimeout delay
Call(op, idx, users, channel, body) ==
  [op |-> op, idx |-> idx, users |-> users, channel |-> channel, body |-> body,
   res |-> "pending"]

(***************************************************************************)
(* Pure functions of the two deployments                                   *)
(***************************************************************************)
NonBlank(line) == Len(Trim(line)) > 0

\* pairsText.split('\n').filter(line => line.trim())
NonBlankLines(text) == SelectSeq(Split(text, NL), NonBlank)

\* line.split(',').map(u => u.trim())
Tokens(line) == LET parts == Split(line, ",") IN [k \in 1..Len(parts) |-> Trim(parts[k])]

cleanUserId(userInput) == StripAt(userInput)

Pair(user1, user2, raw) == [user1 |-> user1, user2 |-> user2, raw |-> raw]

RECURSIVE PairsOf(_)
PairsOf(lines) ==
  IF Len(lines) = 0 THEN << >>
  ELSE LET trimmedLine == Trim(Head(lines))
           users == Tokens(trimmedLine)
       IN  IF Len(users) # 2 THEN PairsOf(Tail(lines))
           ELSE <<Pair(cleanUserId(users[1]), cleanUserId(users[2]), trimmedLine)>>
                  \o PairsOf(Tail(lines))

parsePairs(pairsText) == PairsOf(NonBlankLines(pairsText))

\* the lines of the simple deployment, carried in the same record shape
LineItems(text) ==
  LET lines == NonBlankLines(text)
  IN  [k \in 1..Len(lines) |->
         LET users == Tokens(lines[k])
         IN  IF Len(users) = 2 THEN Pair(users[1], users[2], lines[k])
             ELSE Pair(Empty, Empty, lines[k])]

WellFormed(line) == Len(Tokens(line)) = 2

\* the identifier a lookup works on: findUser strips a leading @ itself,
\* findUserByIdentifier takes what cleanUserId left
Cleaned(variant, identifier) ==
  IF variant = "simple" THEN StripAt(identifier) ELSE identifier

\* which branch of findUser / findUserByIdentifier an identifier takes
LookupKind(cleaned) ==
  IF StartsWithU(cleaned) THEN "id"
  ELSE IF IncludesAt(cleaned) THEN "email"
  ELSE "name"

MemberMatches(member, cleaned) ==
  \/ ToLower(member.display_name) = ToLower(cleaned)
  \/ ToLower(member.real_name) = ToLower(cleaned)
  \/ ToLower(member.name) = ToLower(cleaned)

\* members.find(...): index of the first matching member, 0 when there is none
FindMember(members, cleaned) ==
  LET hits == {k \in 1..Len(members) : MemberMatches(members[k], cleaned)}
  IN  IF hits = {} THEN 0 ELSE CHOOSE k \in hits : \A j \in hits : k <= j

\* users.lookupByEmail answers from the directory
EmailOwner(email) == {k \in 1..Len(Members) : Members[k].email = email /\ Len(email) > 0}

\* what a lookup yields once Slack has answered it: the identifier itself when
\* it starts with U, the owner of the email, the first member the name matches;
\* Empty when Slack knows no such user
Resolved(cleaned) ==
  LET kind == LookupKind(cleaned)
      owner == EmailOwner(cleaned)
      hit == FindMember(Members, cleaned)
  IN  IF kind = "id" THEN cleaned
      ELSE IF kind = "email"
           THEN IF owner = {} THEN Empty ELSE Members[CHOOSE k \in owner : TRUE].id
           ELSE IF hit = 0 THEN Empty ELSE Members[hit].id

\* the message of the error a failed lookup raises
LookupError(variant, kind, cleaned, cause) ==
  IF variant = "simple"
  THEN IF kind = "email" THEN Err("Email not found", cleaned, "")
       ELSE Err("Failed to find user", cleaned, "")
  ELSE Err("Failed to find user", cleaned, cause)

\* profile.display_name || real_name
DisplayOf(user) == IF Len(user.display_name) > 0 THEN user.display_name ELSE user.real_name

PairLabel(u1, u2) == DisplayOf(MemberById(u1)) \o <<" ", "&", " ">> \o DisplayOf(MemberById(u2))

Succeeded(r) == r.success

Failed(r) == ~r.success

Item(r) == [pair |-> r.pair, error |-> r.error]

Section(header, rs) == [header |-> header, items |-> [k \in 1..Len(rs) |-> Item(rs[k])]]

\* the summary text of the simple deployment
SimpleSummary(rs) ==
  LET successful == Len(SelectSeq(rs, Succeeded))
      failed == SelectSeq(rs, Failed)
  IN  Body("summary", successful, Len(failed),
           IF Len(failed) > 0 THEN <<Section("Failed pairs", failed)>> ELSE << >>,
           NoError)

\* the summary blocks of sendSummaryToRequester
ClassSummary(rs) ==
  LET successful == SelectSeq(rs, Succeeded)
      failed == SelectSeq(rs, Failed)
  IN  Body("summary", Len(successful), Len(failed),
           (IF Len(successful) > 0
              THEN <<Section("Successfully created DMs for", successful)>> ELSE << >>)
           \o (IF Len(failed) > 0
              THEN <<Section("Failed to create DMs for", failed)>> ELSE << >>),
           NoError)

\* isAdminSimple, had the list not been consulted
isAdminAlways(admins, userId) == TRUE

\* isAdmin of the simple deployment
isAdminSimple(admins, userId) == admins = {} \/ userId \in admins

\* PairMatchingBot.isAdmin up to its await: "yes", or "lookup" of the caller's email
isAdminClass(admins, userId) ==
  IF admins = {} \/ userId \in admins THEN "yes" ELSE "lookup"

\* PairMatchingBot.isAdmin after users.info answered
isAdminByEmail(admins, userEmail) == Len(userEmail) > 0 /\ userEmail \in admins

(***************************************************************************)
(* State machine                                                           *)
(***************************************************************************)
Init ==
  /\ app \in {"simple", "class"}
  /\ adminUsers \in AdminConfigs
  /\ modalOpen = {}
  /\ pc = [p \in Procs |-> "idle"]
  /\ caller = [p \in Procs |-> Empty]
  /\ pairs_input = [p \in Procs |-> Empty]
  /\ items = [p \in Procs |-> << >>]
  /\ i = [p \in Procs |-> 1]
  /\ userId1 = [p \in Procs |-> Empty]
  /\ userId2 = [p \in Procs |-> Empty]
  /\ conv = [p \in Procs |-> Empty]
  /\ results = [p \in Procs |-> << >>]
  /\ log = [p \in Procs |-> << >>]

\* the position in log[p] of the call the handler is awaiting
Awaited(p) == Len(log[p])

Answer(p, k, res) == [log EXCEPT ![p][k].res = res]

ResOf(ok) == IF ok THEN "ok" ELSE "err"

\* a fresh invocation starts with the locals of its handler unset
Fresh(p) ==
  /\ pairs_input' = [pairs_input EXCEPT ![p] = Empty]
  /\ items' = [items EXCEPT ![p] = << >>]
  /\ i' = [i EXCEPT ![p] = 1]
  /\ userId1' = [userId1 EXCEPT ![p] = Empty]
  /\ userId2' = [userId2 EXCEPT ![p] = Empty]
  /\ conv' = [conv EXCEPT ![p] = Empty]
  /\ results' = [results EXCEPT ![p] = << >>]

batchVars == <<pairs_input, items, i, userId1, userId2, conv, results>>

(***************************************************************************)
(* /pair-match                                                             *)
(***************************************************************************)
\* the slash command arrives; the handler runs up to its first await after ack
Command(p, c) ==
  /\ pc[p] = "idle"
  /\ caller' = [caller EXCEPT ![p] = c]
  /\ Fresh(p)
  /\ LET allowed == IF app = "simple" THEN isAdminSimple(adminUsers, c)
                    ELSE isAdminClass(adminUsers, c) = "yes"
         first == IF allowed THEN Call("views.open", 0, <<c>>, Empty, NoticeBody("modal"))
                  ELSE IF app = "simple"
                       THEN Call("respond", 0, <<c>>, Empty, NoticeBody("denied"))
                       ELSE Call("users.info", 0, <<c>>, Empty, NoticeBody("admin"))
     IN  /\ log' = [log EXCEPT ![p] = <<first>>]
         /\ pc' = [pc EXCEPT ![p] = IF allowed THEN "wait_views_open"
                                     ELSE IF app = "simple" THEN "wait_respond_denied"
                                     ELSE "wait_admin_info"]
  /\ UNCHANGED <<app, adminUsers, modalOpen>>

\* users.info of isAdmin answers; an error is caught and means "not admin"
AdminInfoReturn(p, ok) ==
  /\ pc[p] = "wait_admin_info"
  /\ ok => caller[p] \in MemberIds
  /\ LET allowed == ok /\ isAdminByEmail(adminUsers, MemberById(caller[p]).email)
         next == IF allowed
                 THEN Call("views.open", 0, <<caller[p]>>, Empty, NoticeBody("modal"))
                 ELSE Call("respond", 0, <<caller[p]>>, Empty, NoticeBody("denied"))
     IN  /\ log' = [log EXCEPT ![p] = Append(Answer(p, Awaited(p), ResOf(ok))[p], next)]
         /\ pc' = [pc EXCEPT ![p] = IF allowed THEN "wait_views_open"
                                     ELSE "wait_respond_denied"]
  /\ UNCHANGED <<app, adminUsers, modalOpen, caller, batchVars>>

\* respond("Access denied") answers; the class handler catches an error of it
\* and responds once more, the simple handler ends either way
RespondDeniedReturn(p, ok) ==
  /\ pc[p] = "wait_respond_denied"
  /\ IF ~ok /\ app = "class"
     THEN /\ log' = [log EXCEPT ![p] =
                       Append(Answer(p, Awaited(p), "err")[p],
                              Call("respond", 0, <<caller[p]>>, Empty, NoticeBody("form_error")))]
          /\ pc' = [pc EXCEPT ![p] = "wait_respond_error"]
     ELSE /\ log' = Answer(p, Awaited(p), ResOf(ok))
          /\ pc' = [pc EXCEPT ![p] = "done"]
  /\ UNCHANGED <<app, adminUsers, modalOpen, caller, batchVars>>

\* views.open answers: the modal is shown, or the error is caught and reported
ViewsOpenReturn(p, ok) ==
  /\ pc[p] = "wait_views_open"
  /\ IF ok
     THEN /\ modalOpen' = modalOpen \cup {caller[p]}
          /\ log' = Answer(p, Awaited(p), "ok")
          /\ pc' = [pc EXCEPT ![p] = "done"]
     ELSE /\ modalOpen' = modalOpen
          /\ log' = [log EXCEPT ![p] =
                       Append(Answer(p, Awaited(p), "err")[p],
                              Call("respond", 0, <<caller[p]>>, Empty, NoticeBody("form_error")))]
          /\ pc' = [pc EXCEPT ![p] = "wait_respond_error"]
  /\ UNCHANGED <<app, adminUsers, caller, batchVars>>

\* respond("Error opening form") answers; nothing follows it
RespondErrorReturn(p, ok) ==
  /\ pc[p] = "wait_respond_error"
  /\ log' = Answer(p, Awaited(p), ResOf(ok))
  /\ pc' = [pc EXCEPT ![p] = "done"]
  /\ UNCHANGED <<app, adminUsers, modalOpen, caller, batchVars>>

(***************************************************************************)
(* Modal submission: pair_modal (simple), pair_input_modal (class)         *)
(***************************************************************************)
\* the requester submits the modal; the pairs input is a required field, so
\* its value is never empty.  The class handler throws on an empty pairs
\* array and its catch posts the error to the requester.
Submit(p, u, text) ==
  /\ pc[p] = "idle"
  /\ u \in modalOpen
  /\ modalOpen' = modalOpen \ {u}
  /\ caller' = [caller EXCEPT ![p] = u]
  /\ pairs_input' = [pairs_input EXCEPT ![p] = text]
  /\ i' = [i EXCEPT ![p] = 1]
  /\ userId1' = [userId1 EXCEPT ![p] = Empty]
  /\ userId2' = [userId2 EXCEPT ![p] = Empty]
  /\ conv' = [conv EXCEPT ![p] = Empty]
  /\ results' = [results EXCEPT ![p] = << >>]
  /\ IF app = "simple"
     THEN /\ items' = [items EXCEPT ![p] = LineItems(text)]
          /\ log' = [log EXCEPT ![p] = << >>]
          /\ pc' = [pc EXCEPT ![p] = "loop"]
     ELSE LET pairs == parsePairs(text)
          IN  /\ items' = [items EXCEPT ![p] = pairs]
              /\ IF Len(pairs) = 0
                 THEN /\ log' = [log EXCEPT ![p] =
                                   <<Call("chat.postMessage", 0, << >>, u,
                                          ErrorBody(Err("No valid pairs found", Empty, "")))>>]
                      /\ pc' = [pc EXCEPT ![p] = "wait_error_post"]
                 ELSE /\ log' = [log EXCEPT ![p] = << >>]
                      /\ pc' = [pc EXCEPT ![p] = "loop"]
  /\ UNCHANGED <<app, adminUsers>>

\* the summary the deployment sends for its results
SummaryOf(rs) == IF app = "simple" THEN SimpleSummary(rs) ELSE ClassSummary(rs)

\* Fail, had the failed result been put in front of the array (unshift)
FailUnshift(p, error) ==
  /\ results' = [results EXCEPT ![p] =
                   <<Outcome(FALSE, items[p][i[p]].raw, error, Empty)>> \o @]
  /\ i' = [i EXCEPT ![p] = @ + 1]
  /\ pc' = [pc EXCEPT ![p] = "loop"]
  /\ userId1' = [userId1 EXCEPT ![p] = Empty]
  /\ userId2' = [userId2 EXCEPT ![p] = Empty]
  /\ conv' = [conv EXCEPT ![p] = Empty]

\* Fail, had the catch sat around the loop instead of inside it: the failure
\* is recorded and the remaining pairs are given up
FailAbort(p, error) ==
  /\ results' = [results EXCEPT ![p] =
                   Append(@, Outcome(FALSE, items[p][i[p]].raw, error, Empty))]
  /\ i' = [i EXCEPT ![p] = Len(items[p]) + 1]
  /\ pc' = [pc EXCEPT ![p] = "loop"]
  /\ userId1' = [userId1 EXCEPT ![p] = Empty]
  /\ userId2' = [userId2 EXCEPT ![p] = Empty]
  /\ conv' = [conv EXCEPT ![p] = Empty]

\* Fail, had results been one array of the module that every invocation
\* pushes to
FailShared(p, error) ==
  /\ results' = [q \in DOMAIN results |->
                   Append(results[q], Outcome(FALSE, items[p][i[p]].raw, error, Empty))]
  /\ i' = [i EXCEPT ![p] = @ + 1]
  /\ pc' = [pc EXCEPT ![p] = "loop"]
  /\ userId1' = [userId1 EXCEPT ![p] = Empty]
  /\ userId2' = [userId2 EXCEPT ![p] = Empty]
  /\ conv' = [conv EXCEPT ![p] = Empty]

\* catch (error) of the pair loop: one failed result, then the next iteration
\* (the delay sits in the try block and is skipped)
Fail(p, error) ==
  /\ results' = [results EXCEPT ![p] =
                   Append(@, Outcome(FALSE, items[p][i[p]].raw, error, Empty))]
  /\ i' = [i EXCEPT ![p] = @ + 1]
  /\ pc' = [pc EXCEPT ![p] = "loop"]
  /\ userId1' = [userId1 EXCEPT ![p] = Empty]
  /\ userId2' = [userId2 EXCEPT ![p] = Empty]
  /\ conv' = [conv EXCEPT ![p] = Empty]

\* head of the for loop: past the end the summary is posted; a line of the
\* simple deployment that does not split in two is recorded and skipped
Loop(p) ==
  /\ pc[p] = "loop"
  /\ IF i[p] > Len(items[p])
     THEN /\ log' = [log EXCEPT ![p] =
                       Append(@, Call("chat.postMessage", 0, << >>, caller[p],
                                      SummaryOf(results[p])))]
          /\ pc' = [pc EXCEPT ![p] = "wait_summary"]
          /\ UNCHANGED <<i, results>>
     ELSE IF app = "simple" /\ ~WellFormed(items[p][i[p]].raw)
     THEN /\ results' = [results EXCEPT ![p] =
                           Append(@, Outcome(FALSE, items[p][i[p]].raw,
                                             Err("Invalid format", Empty, ""), Empty))]
          /\ i' = [i EXCEPT ![p] = @ + 1]
          /\ UNCHANGED <<pc, log>>
     ELSE /\ pc' = [pc EXCEPT ![p] = "find1"]
          /\ UNCHANGED <<i, results, log>>
  /\ UNCHANGED <<app, adminUsers, modalOpen, caller, pairs_input, items, userId1, userId2, conv>>

\* Identifier, had the handlers looked the second token up first
IdentifierSwapped(p, which) ==
  Cleaned(app, IF which = 1 THEN items[p][i[p]].user2 ELSE items[p][i[p]].user1)

\* the identifier of the pair the loop is at
Identifier(p, which) ==
  Cleaned(app, IF which = 1 THEN items[p][i[p]].user1 ELSE items[p][i[p]].user2)

FindPc(which) == IF which = 1 THEN "find1" ELSE "find2"

WaitFindPc(which) == IF which = 1 THEN "wait_find1" ELSE "wait_find2"

AfterFind(which) == IF which = 1 THEN "find2" ELSE IF app = "simple" THEN "open" ELSE "info"

SetUserId(p, which, id) ==
  IF which = 1
  THEN userId1' = [userId1 EXCEPT ![p] = id] /\ UNCHANGED userId2
  ELSE userId2' = [userId2 EXCEPT ![p] = id] /\ UNCHANGED userId1

\* findUser / findUserByIdentifier up to its await: an identifier that starts
\* with U is returned as it is, an email or a name is looked up
Find(p, which) ==
  /\ pc[p] = FindPc(which)
  /\ LET cleaned == Identifier(p, which)
         kind == LookupKind(cleaned)
     IN  IF kind = "id"
         THEN /\ SetUserId(p, which, cleaned)
              /\ pc' = [pc EXCEPT ![p] = AfterFind(which)]
              /\ UNCHANGED log
         ELSE /\ log' = [log EXCEPT ![p] =
                           Append(@, Call(IF kind = "email" THEN "users.lookupByEmail"
                                          ELSE "users.list",
                                          i[p], <<cleaned>>, Empty, NoticeBody("lookup")))]
              /\ pc' = [pc EXCEPT ![p] = WaitFindPc(which)]
              /\ UNCHANGED <<userId1, userId2>>
  /\ UNCHANGED <<app, adminUsers, modalOpen, caller, pairs_input, items, i, conv, results>>

\* the lookup answers: the id found, or an error that the catch of the pair
\* loop records
FindReturn(p, which, ok) ==
  /\ pc[p] = WaitFindPc(which)
  /\ LET cleaned == Identifier(p, which)
         kind == LookupKind(cleaned)
         op == log[p][Awaited(p)].op
         id == Resolved(cleaned)
     IN  /\ (ok /\ kind = "email") => id # Empty
         /\ log' = Answer(p, Awaited(p), ResOf(ok))
         /\ IF ok /\ id # Empty
            THEN /\ SetUserId(p, which, id)
                 /\ pc' = [pc EXCEPT ![p] = AfterFind(which)]
                 /\ UNCHANGED <<i, results, conv>>
            ELSE Fail(p, LookupError(app, kind, cleaned,
                                     IF ok THEN "User not found" ELSE op))
  /\ UNCHANGED <<app, adminUsers, modalOpen, caller, pairs_input, items>>

\* Promise.all([users.info(userId1), users.info(userId2)]): both calls are
\* issued before either answers
IssueInfo(p) ==
  /\ pc[p] = "info"
  /\ log' = [log EXCEPT ![p] =
               @ \o <<Call("users.info", i[p], <<userId1[p]>>, Empty, NoticeBody("info")),
                      Call("users.info", i[p], <<userId2[p]>>, Empty, NoticeBody("info"))>>]
  /\ pc' = [pc EXCEPT ![p] = "wait_info"]
  /\ UNCHANGED <<app, adminUsers, modalOpen, caller, batchVars>>

PendingInfo(p) ==
  {k \in 1..Len(log[p]) :
     log[p][k].op = "users.info" /\ log[p][k].idx > 0 /\ log[p][k].res = "pending"}

\* one users.info answers.  Promise.all rejects with the first error, which
\* the catch records while the other call may still be pending; it resolves
\* when both have answered; an answer that arrives after the rejection is
\* dropped.
InfoReturn(p, k, ok) ==
  /\ k \in PendingInfo(p)
  /\ ok => log[p][k].users[1] \in MemberIds
  /\ log' = Answer(p, k, ResOf(ok))
  /\ IF pc[p] = "wait_info" /\ log[p][k].idx = i[p]
     THEN IF ~ok
          THEN Fail(p, ApiError("users.info"))
          ELSE /\ pc' = [pc EXCEPT ![p] = IF PendingInfo(p) = {k} THEN "open" ELSE "wait_info"]
               /\ UNCHANGED <<i, userId1, userId2, conv, results>>
     ELSE UNCHANGED <<pc, i, userId1, userId2, conv, results>>
  /\ UNCHANGED <<app, adminUsers, modalOpen, caller, pairs_input, items>>

\* IssueOpen, had the await been left out: the call is issued and the loop
\* goes on to the next pair at once
IssueOpenNoAwait(p) ==
  /\ pc[p] = "open"
  /\ log' = [log EXCEPT ![p] =
               Append(@, Call("conversations.open", i[p], <<userId1[p], userId2[p]>>,
                              Empty, NoticeBody("open")))]
  /\ pc' = [pc EXCEPT ![p] = "loop"]
  /\ i' = [i EXCEPT ![p] = @ + 1]
  /\ UNCHANGED <<app, adminUsers, modalOpen, caller, pairs_input, items, userId1, userId2, conv, results>>

\* client.conversations.open({users: [userId1, userId2].join(',')})
IssueOpen(p) ==
  /\ pc[p] = "open"
  /\ log' = [log EXCEPT ![p] =
               Append(@, Call("conversations.open", i[p], <<userId1[p], userId2[p]>>,
                              Empty, NoticeBody("open")))]
  /\ pc' = [pc EXCEPT ![p] = "wait_open"]
  /\ UNCHANGED <<app, adminUsers, modalOpen, caller, batchVars>>

\* conversation.channel.id of the group DM of two users
ChannelOf(u1, u2) == <<"D">> \o u1 \o u2

\* OpenReturn, had an error of conversations.open been swallowed: the intro
\* is posted whatever the call answered
OpenReturnSwallow(p, ok) ==
  /\ pc[p] = "wait_open"
  /\ conv' = [conv EXCEPT ![p] = ChannelOf(userId1[p], userId2[p])]
  /\ log' = [log EXCEPT ![p] =
               Append(Answer(p, Awaited(p), ResOf(ok))[p],
                      Call("chat.postMessage", i[p], << >>,
                           ChannelOf(userId1[p], userId2[p]), IntroBody))]
  /\ pc' = [pc EXCEPT ![p] = "wait_post"]
  /\ UNCHANGED <<i, userId1, userId2, results>>
  /\ UNCHANGED <<app, adminUsers, modalOpen, caller, pairs_input, items>>

\* conversations.open answers; then chat.postMessage of the intro is issued
OpenReturn(p, ok) ==
  /\ pc[p] = "wait_open"
  /\ IF ok
     THEN /\ conv' = [conv EXCEPT ![p] = ChannelOf(userId1[p], userId2[p])]
          /\ log' = [log EXCEPT ![p] =
                       Append(Answer(p, Awaited(p), "ok")[p],
                              Call("chat.postMessage", i[p], << >>,
                                   ChannelOf(userId1[p], userId2[p]), IntroBody))]
          /\ pc' = [pc EXCEPT ![p] = "wait_post"]
          /\ UNCHANGED <<i, userId1, userId2, results>>
     ELSE /\ log' = Answer(p, Awaited(p), "err")
          /\ Fail(p, ApiError("conversations.open"))
  /\ UNCHANGED <<app, adminUsers, modalOpen, caller, pairs_input, items>>

\* the label of a successful result
SuccessLabel(p) ==
  IF app = "simple" THEN items[p][i[p]].raw ELSE PairLabel(userId1[p], userId2[p])

\* chat.postMessage of the intro answers; on success the result is pushed and
\* the delay timer is started
PostReturn(p, ok) ==
  /\ pc[p] = "wait_post"
  /\ IF ok
     THEN /\ results' = [results EXCEPT ![p] =
                           Append(@, Outcome(TRUE, SuccessLabel(p), NoError,
                                             IF app = "simple" THEN Empty ELSE conv[p]))]
          /\ log' = [log EXCEPT ![p] =
                       Append(Answer(p, Awaited(p), "ok")[p],
                              Call("delay", i[p], << >>, Empty, NoticeBody("delay")))]
          /\ pc' = [pc EXCEPT ![p] = "wait_delay"]
          /\ UNCHANGED <<i, userId1, userId2, conv>>
     ELSE /\ log' = Answer(p, Awaited(p), "err")
          /\ Fail(p, ApiError("chat.postMessage"))
  /\ UNCHANGED <<app, adminUsers, modalOpen, caller, pairs_input, items>>

\* the setTimeout of the delay fires; the iteration ends
DelayReturn(p) ==
  /\ pc[p] = "wait_delay"
  /\ log' = Answer(p, Awaited(p), "ok")
  /\ i' = [i EXCEPT ![p] = @ + 1]
  /\ pc' = [pc EXCEPT ![p] = "loop"]
  /\ userId1' = [userId1 EXCEPT ![p] = Empty]
  /\ userId2' = [userId2 EXCEPT ![p] = Empty]
  /\ conv' = [conv EXCEPT ![p] = Empty]
  /\ UNCHANGED <<app, adminUsers, modalOpen, caller, pairs_input, items, results>>

\* chat.postMessage of the summary answers.  An error of it leaves the simple
\* handler uncaught; the class handler catches it and posts "Error: ..."
SummaryReturn(p, ok) ==
  /\ pc[p] = "wait_summary"
  /\ IF ~ok /\ app = "class"
     THEN /\ log' = [log EXCEPT ![p] =
                       Append(Answer(p, Awaited(p), "err")[p],
                              Call("chat.postMessage", 0, << >>, caller[p],
                                   ErrorBody(ApiError("chat.postMessage"))))]
          /\ pc' = [pc EXCEPT ![p] = "wait_error_post"]
     ELSE /\ log' = Answer(p, Awaited(p), ResOf(ok))
          /\ pc' = [pc EXCEPT ![p] = "done"]
  /\ UNCHANGED <<app, adminUsers, modalOpen, caller, batchVars>>

\* chat.postMessage of "Error: ..." answers; nothing follows it
ErrorPostReturn(p, ok) ==
  /\ pc[p] = "wait_error_post"
  /\ log' = Answer(p, Awaited(p), ResOf(ok))
  /\ pc' = [pc EXCEPT ![p] = "done"]
  /\ UNCHANGED <<app, adminUsers, modalOpen, caller, batchVars>>

\* the handler's promise settles; its locals and call history are gone
Return(p) ==
  /\ pc[p] = "done"
  /\ pc' = [pc EXCEPT ![p] = "idle"]
  /\ caller' = [caller EXCEPT ![p] = Empty]
  /\ log' = [log EXCEPT ![p] = << >>]
  /\ Fresh(p)
  /\ UNCHANGED <<app, adminUsers, modalOpen>>

\* one step of the /pair-match command handler of invocation p
CommandStep(p) ==
    \/ \E c \in Callers : Command(p, c)
    \/ \E ok \in BOOLEAN : AdminInfoReturn(p, ok)
    \/ \E ok \in BOOLEAN : RespondDeniedReturn(p, ok)
    \/ \E ok \in BOOLEAN : ViewsOpenReturn(p, ok)
    \/ \E ok \in BOOLEAN : RespondErrorReturn(p, ok)

\* one step of the view handler of invocation p, the modal being submitted
\* with one of texts
BatchStep(p, texts) ==
    \/ \E u \in Callers, text \in texts : Submit(p, u, text)
    \/ Loop(p)
    \/ \E which \in {1, 2} : Find(p, which)
    \/ \E which \in {1, 2}, ok \in BOOLEAN : FindReturn(p, which, ok)
    \/ IssueInfo(p)
    \/ \E k \in 1..Len(log[p]), ok \in BOOLEAN : InfoReturn(p, k, ok)
    \/ IssueOpen(p)
    \/ \E ok \in BOOLEAN : OpenReturn(p, ok)
    \/ \E ok \in BOOLEAN : PostReturn(p, ok)
    \/ DelayReturn(p)
    \/ \E ok \in BOOLEAN : SummaryReturn(p, ok)
    \/ \E ok \in BOOLEAN : ErrorPostReturn(p, ok)
    \/ Return(p)

Step(p, texts) == CommandStep(p) \/ BatchStep(p, texts)

Next == \E p \in Procs : Step(p, Texts)

Spec == Init /\ [][Next]_vars

\* the same handlers, the modal being submitted with the further lines
InitInput == Init /\ adminUsers = {U1}

NextInput == \E p \in Procs : Step(p, InputTexts)

SpecInput == InitInput /\ [][NextInput]_vars

\* two submissions of the modal in flight at once: every await hands the
\* event loop to whichever handler's call answers next
InitConc ==
  /\ app \in {"simple", "class"}
  /\ adminUsers = {}
  /\ modalOpen = Callers
  /\ pc = [p \in Workers |-> "idle"]
  /\ caller = [p \in Workers |-> Empty]
  /\ pairs_input = [p \in Workers |-> Empty]
  /\ items = [p \in Workers |-> << >>]
  /\ i = [p \in Workers |-> 1]
  /\ userId1 = [p \in Workers |-> Empty]
  /\ userId2 = [p \in Workers |-> Empty]
  /\ conv = [p \in Workers |-> Empty]
  /\ results = [p \in Workers |-> << >>]
  /\ log = [p \in Workers |-> << >>]

NextConc == \E p \in Workers : BatchStep(p, ConcTexts)

SpecConc == InitConc /\ [][NextConc]_vars

(***************************************************************************)
(* Properties                                                              *)
(***************************************************************************)
Entries(p) == 1..Len(log[p])

\* the batch of p has left its loop
BatchOver(p) ==
  /\ Len(items[p]) > 0
  /\ pc[p] \in {"wait_summary", "wait_error_post", "done"}

\* the ids the two tokens of item k resolve to
IdOf(p, k, which) ==
  Resolved(Cleaned(app, IF which = 1 THEN items[p][k].user1 ELSE items[p][k].user2))

\* the label the deployment gives a successful item k
ExpectedLabel(p, k) ==
  IF app = "simple" THEN items[p][k].raw ELSE PairLabel(IdOf(p, k, 1), IdOf(p, k, 2))

\* the posts to the requester
ReportPosts(p) == {k \in Entries(p) : log[p][k].op = "chat.postMessage" /\ log[p][k].idx = 0}

\* C1: results has one outcome per item and outcome k is the outcome of
\* item k (its label when it succeeded, its raw line when it failed); when
\* the loop is over there are as many outcomes as items, and the two counts
\* of the summary add up to the number of items.
C1_OutcomesInInputOrder ==
  \A p \in Procs :
    /\ Len(results[p]) <= Len(items[p])
    /\ \A k \in 1..Len(results[p]) :
         results[p][k].pair = IF results[p][k].success THEN ExpectedLabel(p, k)
                              ELSE items[p][k].raw
    /\ BatchOver(p) => Len(results[p]) = Len(items[p])
    /\ \A k \in ReportPosts(p) :
         log[p][k].body.kind = "summary" =>
           log[p][k].body.successful + log[p][k].body.failed = Len(items[p])

\* a batch of two items is over with one success and one failure
C1_Witness ==
  \E p \in Procs :
    /\ pc[p] = "wait_summary"
    /\ Len(items[p]) >= 2
    /\ \E k, m \in 1..Len(results[p]) : results[p][k].success /\ ~results[p][m].success

PairCalls(p, j) == {k \in Entries(p) : log[p][k].idx = j}

CallOk(p, j, op) ==
  \E k \in PairCalls(p, j) : log[p][k].op = op /\ log[p][k].res = "ok"

\* C2: a conversations.open or chat.postMessage of item j that raised is
\* recorded as the failed outcome of item j with the raised error's message;
\* the batch still reaches its end with every item attempted; and an outcome
\* is a success only if both calls of its item answered without error.
C2_ErrorsStayInTheirPair ==
  \A p \in Procs :
    /\ \A k \in Entries(p) :
         ( /\ log[p][k].op \in {"conversations.open", "chat.postMessage"}
           /\ log[p][k].idx > 0
           /\ log[p][k].res = "err" )
         => /\ Len(results[p]) >= log[p][k].idx
            /\ results[p][log[p][k].idx] =
                 Outcome(FALSE, items[p][log[p][k].idx].raw, ApiError(log[p][k].op), Empty)
    /\ BatchOver(p) =>
         \A j \in 1..Len(items[p]) :
           /\ j <= Len(results[p])
           /\ WellFormed(items[p][j].raw) => PairCalls(p, j) # {}
    /\ \A j \in 1..Len(results[p]) :
         results[p][j].success =>
           CallOk(p, j, "conversations.open") /\ CallOk(p, j, "chat.postMessage")

\* the first item failed in conversations.open and the second one succeeded
C2_Witness ==
  \E p \in Procs :
    /\ pc[p] = "wait_summary"
    /\ Len(results[p]) >= 2
    /\ results[p][1].error = ApiError("conversations.open")
    /\ results[p][2].success

\* C3 (as claimed): whenever calls of two different items were issued, the
\* delay of the earlier item was awaited before the first call of the later.
C3_DelayAfterEveryAttempt ==
  \A p \in Procs :
    \A m, k \in Entries(p) :
      (m < k /\ 0 < log[p][m].idx /\ log[p][m].idx < log[p][k].idx)
      => \E d \in Entries(p) :
           /\ d < k
           /\ log[p][d].op = "delay"
           /\ log[p][d].idx = log[p][m].idx
           /\ log[p][d].res = "ok"

\* the calls a pair is worked off with, one after the other
SequentialOps == {"users.lookupByEmail", "users.list", "conversations.open",
                  "chat.postMessage", "delay"}

C5_SelfPairIsInvalid ==
  \A p \in Procs :
    /\ (userId1[p] # Empty /\ userId1[p] = userId2[p]) =>
         pc[p] \notin {"info", "wait_info", "open", "wait_open", "wait_post", "wait_delay"}
    /\ \A k \in 1..Len(results[p]) :
         results[p][k].success => IdOf(p, k, 1) # IdOf(p, k, 2)

\* C6 (as claimed): conversations.open is called with two distinct ids, at
\* most once per item, and never for a line that does not split in two.
C6_OpenOnlyForValidPairs ==
  \A p \in Procs :
    \A k \in Entries(p) :
      log[p][k].op = "conversations.open" =>
        /\ log[p][k].users[1] # log[p][k].users[2]
        /\ WellFormed(items[p][log[p][k].idx].raw)
        /\ \A m \in Entries(p) :
             (log[p][m].op = "conversations.open" /\ log[p][m].idx = log[p][k].idx) => m = k

\* the configured list is not empty and holds neither the caller's id nor,
\* where the deployment looks it up, the caller's email
Denied(u) ==
  /\ adminUsers # {}
  /\ u \notin adminUsers
  /\ app = "class" => MemberById(u).email \notin adminUsers

PipelineOps == {"users.lookupByEmail", "users.list", "conversations.open", "chat.postMessage"}

\* C7: a caller the configured list denies never has the modal, and an
\* invocation on that caller's behalf parses nothing and issues no lookup,
\* no conversations.open and no chat.postMessage; an invocation that
\* answered "access denied" opens no modal.
C7_DeniedCallerNeverServed ==
  /\ \A u \in Callers : Denied(u) => u \notin modalOpen
  /\ \A p \in Procs :
       /\ (caller[p] # Empty /\ Denied(caller[p])) =>
            /\ items[p] = << >>
            /\ results[p] = << >>
            /\ pc[p] \in {"wait_admin_info", "wait_respond_denied", "wait_respond_error", "done"}
            /\ \A k \in Entries(p) :
                 log[p][k].op \notin PipelineOps /\ log[p][k].op # "views.open"
       /\ \A k, m \in Entries(p) :
            log[p][k].body.kind = "denied" => log[p][m].op \notin PipelineOps \cup {"views.open"}

\* a denied caller has been told so and the handler is through
C7_Witness ==
  \E p \in Procs :
    /\ pc[p] = "done"
    /\ caller[p] # Empty
    /\ Denied(caller[p])
    /\ \E k \in Entries(p) : log[p][k].body.kind = "denied" /\ log[p][k].res = "ok"

\* the handler of a submission is through
SubmissionOver(p) == pc[p] = "done" /\ ReportPosts(p) # {}

\* the message lists the outcome with its pair and its error
Itemizes(body, r) ==
  \E s \in 1..Len(body.sections) :
    \E t \in 1..Len(body.sections[s].items) : body.sections[s].items[t] = Item(r)

\* C8 (as claimed): when the handler of a submission is through, exactly one
\* report has been posted to the requester, it was posted after every call
\* of every pair, and it lists every outcome, success or failure, with its
\* reason.
C8_OneCompleteFinalReport ==
  \A p \in Procs :
    SubmissionOver(p) =>
      /\ Cardinality(ReportPosts(p)) = 1
      /\ Len(results[p]) = Len(items[p])
      /\ \A k \in ReportPosts(p) :
           /\ \A m \in Entries(p) : log[p][m].idx > 0 => m < k
           /\ \A j \in 1..Len(results[p]) : Itemizes(log[p][k].body, results[p][j])

\* C9 (as claimed): a users.list that raised is not recorded as the failure
\* of the line it was called for, no call for any pair follows it, and what
\* the requester is told is a top-level error.
C9_DirectoryFailureIsTopLevel ==
  \A p \in Procs :
    \A k \in Entries(p) :
      (log[p][k].op = "users.list" /\ log[p][k].res = "err")
      => /\ Len(results[p]) < log[p][k].idx
         /\ \A m \in Entries(p) : m > k => log[p][m].idx = 0
         /\ \A m \in ReportPosts(p) : log[p][m].body.kind = "error"

\* C10 (as claimed): after a users.list that answered, the resolutions of
\* the same batch (which all fall into one TTL window) call users.list no more.
C10_OneFetchPerWindow ==
  \A p \in Procs :
    \A k, m \in Entries(p) :
      ~ ( /\ k < m
          /\ log[p][k].op = "users.list"
          /\ log[p][k].res = "ok"
          /\ log[p][m].op = "users.list" )


\* a directory entry the claim excludes from resolution
Excluded(id) ==
  /\ id \in MemberIds
  /\ MemberById(id).deleted \/ MemberById(id).is_bot

\* C11: no lookup yields the id of a member flagged deleted or is_bot, and
\* no conversations.open names such a member.
C11_DeletedAndBotsNeverResolve ==
  \A p \in Procs :
    /\ ~Excluded(userId1[p])
    /\ ~Excluded(userId2[p])
    /\ \A k \in Entries(p) :
         log[p][k].op = "conversations.open" =>
           \A j \in 1..Len(log[p][k].users) : ~Excluded(log[p][k].users[j])

\* the members a token matches under one rule of the precedence
RuleHits(rule, token) ==
  {k \in 1..Len(Members) :
     CASE rule = 1 -> Members[k].id = token
       [] rule = 2 -> Len(token) > 0 /\ Members[k].email = token
       [] rule = 3 -> ToLower(Members[k].name) = ToLower(token)
       [] OTHER -> \/ ToLower(Members[k].display_name) = ToLower(token)
                   \/ ToLower(Members[k].real_name) = ToLower(token)}

\* the id the precedence id, email, handle, display/real name gives a token:
\* the first member, in directory order, of the first rule that matches
InOrder(token) ==
  LET rules == {r \in 1..4 : RuleHits(r, token) # {}}
      first == CHOOSE r \in rules : \A q \in rules : r <= q
      hits == RuleHits(first, token)
  IN  IF rules = {} THEN Empty
      ELSE Members[CHOOSE k \in hits : \A j \in hits : k <= j].id

\* C12: the id a lookup yields for a token is the one the precedence id,
\* email, handle, display/real name gives it (first matching rule wins).
C12_RulesInFixedOrder ==
  \A p \in Procs :
    /\ userId1[p] # Empty => userId1[p] = InOrder(Identifier(p, 1))
    /\ userId2[p] # Empty => userId2[p] = InOrder(Identifier(p, 2))

\* C13: an id a lookup yields is the id of a member of the directory, and a
\* pair is a success only if both its tokens resolved to members.
C13_ResolvedIdsAreMembers ==
  \A p \in Procs :
    /\ userId1[p] # Empty => userId1[p] \in MemberIds
    /\ userId2[p] # Empty => userId2[p] \in MemberIds
    /\ \A k \in Entries(p) :
         log[p][k].op = "conversations.open" =>
           \A j \in 1..Len(log[p][k].users) : log[p][k].users[j] \in MemberIds


\* the handler of a submission has left its loop, or never entered it
LinesOver(p) == pc[p] \in {"wait_summary", "wait_error_post", "done"}

\* a line of exactly two non-empty trimmed tokens
TwoTokens(line) ==
  /\ Len(Tokens(line)) = 2
  /\ \A k \in 1..2 : Len(Tokens(line)[k]) > 0

\* C14: once the lines of a submission are through, every non-blank line
\* that is not two non-empty tokens has a failed outcome of its own that
\* says the format is invalid.
C14_MalformedLinesAreReported ==
  \A p \in Procs :
    LinesOver(p) =>
      LET lines == NonBlankLines(pairs_input[p])
      IN  \A k \in 1..Len(lines) :
            ~TwoTokens(lines[k]) =>
              \E j \in 1..Len(results[p]) :
                /\ ~results[p][j].success
                /\ Trim(results[p][j].pair) = Trim(lines[k])
                /\ results[p][j].error = Err("Invalid format", Empty, "")

\* C15: once the lines of a submission are through, results holds one
\* outcome per non-blank line of the input, in the order of the lines, and
\* none for a blank line.
C15_OneRecordPerNonBlankLine ==
  \A p \in Procs :
    LinesOver(p) =>
      LET lines == NonBlankLines(pairs_input[p])
      IN  /\ Len(results[p]) = Len(lines)
          /\ \A k \in 1..Len(results[p]) :
               ~results[p][k].success => Trim(results[p][k].pair) = Trim(lines[k])

\* C16: in every summary posted to the requester each failed entry stands in
\* an earlier section than each succeeded entry.
C16_FailuresListedFirst ==
  \A p \in Procs :
    \A k \in ReportPosts(p) :
      LET sections == log[p][k].body.sections
      IN  \A s, t \in 1..Len(sections) :
            \A x \in 1..Len(sections[s].items), y \in 1..Len(sections[t].items) :
              ( /\ sections[s].items[x].error # NoError
                /\ sections[t].items[y].error = NoError ) => s < t


\* the identifier the lookups of item k work on
TokenOf(p, k, which) ==
  Cleaned(app, IF which = 1 THEN items[p][k].user1 ELSE items[p][k].user2)

\* the lookups issued for item k
Lookups(p, k) ==
  {e \in Entries(p) : log[p][e].idx = k /\ log[p][e].op \in {"users.lookupByEmail", "users.list"}}

\* outcome k is the failure of a lookup of identifier ident
LookupFailed(p, k, ident) ==
  /\ ~results[p][k].success
  /\ results[p][k].error.kind \in {"Email not found", "Failed to find user"}
  /\ results[p][k].error.ident = ident

\* C18: the second token of a pair is looked up only once the first has
\* resolved; a well-formed line whose first token does not resolve fails with
\* an error that names the first token, without any lookup of the second;
\* and a failure that names the second token comes only after the first
\* resolved.
C18_FirstTokenCheckedFirst ==
  \A p \in Procs :
    /\ pc[p] \in {"find2", "wait_find2"} => userId1[p] # Empty
    /\ \A k \in 1..Len(results[p]) :
         WellFormed(items[p][k].raw) =>
           /\ IdOf(p, k, 1) = Empty =>
                /\ LookupFailed(p, k, TokenOf(p, k, 1))
                /\ Cardinality(Lookups(p, k)) = 1
           /\ ( /\ LookupFailed(p, k, TokenOf(p, k, 2))
                /\ TokenOf(p, k, 2) # TokenOf(p, k, 1) )
              => /\ IdOf(p, k, 1) # Empty
                 /\ \/ LookupKind(TokenOf(p, k, 1)) = "id"
                    \/ \E e \in Lookups(p, k) :
                         /\ log[p][e].users = <<TokenOf(p, k, 1)>>
                         /\ log[p][e].res = "ok"

\* a line of two different unknown names has failed on its first name, the
\* directory having answered, and another line has failed on its second
C18_Witness ==
  \E p \in Procs :
    \E k, m \in 1..Len(results[p]) :
      /\ WellFormed(items[p][k].raw)
      /\ IdOf(p, k, 1) = Empty
      /\ IdOf(p, k, 2) = Empty
      /\ TokenOf(p, k, 1) # TokenOf(p, k, 2)
      /\ LookupFailed(p, k, TokenOf(p, k, 1))
      /\ \A e \in Lookups(p, k) : log[p][e].res = "ok"
      /\ LookupFailed(p, m, TokenOf(p, m, 2))
      /\ TokenOf(p, m, 2) # TokenOf(p, m, 1)


\* the calls of one kind issued for item j
CallsOf(p, j, op) == {e \in PairCalls(p, j) : log[p][e].op = op}

\* C19: an intro chat.postMessage of item j is issued only after a
\* conversations.open of item j answered without error, on the channel that
\* call opened, and once per item; an open that raised, or that has not
\* answered yet, has no intro of its item.
C19_IntroOnlyAfterOpen ==
  \A p \in Procs :
    /\ \A e \in Entries(p) :
         (log[p][e].op = "chat.postMessage" /\ log[p][e].idx > 0) =>
           /\ \E o \in CallsOf(p, log[p][e].idx, "conversations.open") :
                /\ o < e
                /\ log[p][o].res = "ok"
                /\ log[p][e].channel = ChannelOf(log[p][o].users[1], log[p][o].users[2])
           /\ CallsOf(p, log[p][e].idx, "chat.postMessage") = {e}
    /\ \A o \in Entries(p) :
         log[p][o].op = "conversations.open" =>
           Cardinality(CallsOf(p, log[p][o].idx, "chat.postMessage"))
             = IF log[p][o].res = "ok" THEN 1 ELSE 0

\* in one batch an open has raised, with no intro for its pair, and another
\* pair's open has answered and its intro has been posted
C19_Witness ==
  \E p \in Procs :
    \E o, q \in Entries(p) :
      /\ log[p][o].op = "conversations.open" /\ log[p][o].res = "err"
      /\ CallsOf(p, log[p][o].idx, "chat.postMessage") = {}
      /\ log[p][q].op = "conversations.open" /\ log[p][q].res = "ok"
      /\ \E e \in CallsOf(p, log[p][q].idx, "chat.postMessage") : log[p][e].res = "ok"


\* the items the view handler makes of a text
ItemsOf(text) == IF app = "simple" THEN LineItems(text) ELSE parsePairs(text)

\* C17: with two submissions in flight, the outcomes of each invocation are
\* outcomes of the lines of its own text, at most one per line and in their
\* order, and the summary an invocation posts goes to its own requester and
\* is the summary of exactly its own outcomes, one per line.
C17_OutcomesArePerInvocation ==
  \A p \in Workers :
    /\ pc[p] # "idle" => items[p] = ItemsOf(pairs_input[p])
    /\ Len(results[p]) <= Len(items[p])
    /\ \A k \in 1..Len(results[p]) :
         results[p][k].pair = IF results[p][k].success THEN ExpectedLabel(p, k)
                              ELSE items[p][k].raw
    /\ \A e \in ReportPosts(p) :
         log[p][e].body.kind = "summary" =>
           /\ log[p][e].channel = caller[p]
           /\ log[p][e].body = SummaryOf(results[p])
           /\ Len(results[p]) = Len(items[p])

\* two submissions of different requesters with different texts have both
\* posted their summary, one after a failed pair and one after a success
C17_Witness ==
  /\ \A p \in Workers : pc[p] = "wait_summary"
  /\ caller[1] # caller[2]
  /\ pairs_input[1] # pairs_input[2]
  /\ ~results[1][1].success
  /\ results[2][1].success

\* the invocations whose users.list has not answered yet
ListInFlight ==
  {p \in Workers : \E e \in Entries(p) : log[p][e].op = "users.list" /\ log[p][e].res = "pending"}

\* C20: at most one users.list call is in flight at any moment.
C20_OneListInFlight == Cardinality(ListInFlight) <= 1


\* the invocation of p opened the modal / answered "access denied" / looked
\* the caller's email up for the admin check
Allowed(p) == \E e \in Entries(p) : log[p][e].op = "views.open"

Refused(p) == \E e \in Entries(p) : log[p][e].body.kind = "denied"

EmailLookups(p) == {e \in Entries(p) : log[p][e].body.kind = "admin"}

\* the caller's id or the caller's email is in the configured list
Listed(u) == u \in adminUsers \/ MemberById(u).email \in adminUsers

\* C21: with an empty admin list every caller is allowed and no users.info
\* is issued for the check; with a non-empty list a caller is allowed only
\* if the caller's id or email is in the list and is refused only if neither
\* is, or the lookup of the email raised; a lookup that raised never leads
\* to the modal.
C21_AdminCheck ==
  \A p \in Procs :
    /\ adminUsers = {} => ~Refused(p) /\ EmailLookups(p) = {}
    /\ Allowed(p) => adminUsers = {} \/ Listed(caller[p])
    /\ Refused(p) =>
         /\ adminUsers # {}
         /\ \/ ~Listed(caller[p])
            \/ \E e \in EmailLookups(p) : log[p][e].res = "err"
    /\ (\E e \in EmailLookups(p) : log[p][e].res = "err") => ~Allowed(p)

=============================================================================
